---- MODULE Spec2Model ----
(***************************************************************************)
(* Model of the scraping layer: BaseScraper.scrape_jobs with its           *)
(* navigation/retry engine and JSON checkpoints (scrapers/base_scraper.py),*)
(* the three browser adapters' parse_job_card, and the background task     *)
(* run_scraping_task with the scraping-job status record                   *)
(* (api/routes/jobs.py, database/crud.py).                                 *)
(*                                                                         *)
(* Strings that the code concatenates are sequences of strings here        *)
(* (a URL is <<BASE_URL, "/", "j1">>, a file name is the sequence of its   *)
(* parts); the empty sequence stands for None / "" / a missing dict key.   *)
(***************************************************************************)
EXTENDS Integers, Sequences, FiniteSets, TLC

VARIABLES
    clock,          \* datetime.now(), in ticks of 1/TicksPerHour hour
    instances,      \* number of scraper objects constructed so far
    files,          \* checkpoint_dir: file name -> file content
    platform,       \* scraper.platform_name of the current scraper object
    session_id,     \* scraper._session_id
    mode,           \* "task" (run_scraping_task) or "direct" (scrape_jobs called by library code)
    pc,             \* control point of the caller / of scrape_jobs
    keyword,        \* scrape_jobs argument
    location,       \* scrape_jobs argument (<<>> is None)
    num_pages,      \* scrape_jobs argument
    resume,         \* scrape_jobs argument resume_from_checkpoint
    loaded,         \* what load_checkpoint returned at line 470 (history)
    all_jobs,       \* local all_jobs of scrape_jobs
    start_page,     \* local start_page of scrape_jobs
    page_num,       \* loop variable page_num
    attempt,        \* loop variable attempt of navigate_with_retry
    requested,      \* pages handed to navigate_with_retry in this crawl (history)
    extracted,      \* job_url of every job parse_job_card produced in this crawl (history)
    stop_reason,    \* why scrape_jobs ended (history)
    error,          \* the exception that left scrape_jobs or the save phase ("": none)
    empty_seen,     \* get_job_cards returned no card in this crawl (history)
    result,         \* list returned by scrape_jobs
    status,         \* ScrapingJob.status ("none": no record yet)
    progress,       \* ScrapingJob.progress
    jobs_found,     \* ScrapingJob.jobs_found
    jobs_saved,     \* ScrapingJob.jobs_saved
    store,          \* job_url values of the rows of table jobs
    crawls,         \* number of crawls started
    loads,          \* self._page.goto calls made in this crawl (history)
    contexts,       \* browser contexts created and not closed
    response,       \* what the last self._page.goto call met (history)
    cancel_requested, \* the client asked for the crawl to be cancelled
    call,           \* the utility method called last, with its argument
    ret,            \* what that call returned
    savers,         \* concurrent run_scraping_task save phases, by task
    backoff,        \* seconds of the asyncio.sleep in the except clause of the last attempt (0: none)
    rotated,        \* the last attempt ended with _setup_new_context (history)
    browser,        \* the browser launched by init_browser is running
    time_now,       \* time.time(), in ticks of 1/TicksPerMinute minute
    requests,       \* rate_limiter.requests: client id -> times of its recorded requests
    admitted,       \* <<client id, time>> of every request is_allowed admitted (history)
    application,    \* the row of table applications
    events          \* status of every add_timeline_event call on the application (history)

vars == <<clock, instances, files, platform, session_id, mode, pc, keyword,
          location, num_pages, resume, loaded, all_jobs, start_page, page_num,
          attempt, requested, extracted, stop_reason, error, empty_seen, result,
          status, progress, jobs_found, jobs_saved, store, crawls,
          loads, contexts, response, cancel_requested, call, ret, savers,
          backoff, rotated, browser, time_now, requests, admitted, application,
          events>>

\* state of the navigation engine
nav_vars == <<loads, contexts, response, backoff, rotated, browser>>

\* state of the API rate limiter and of the application tracker
api_vars == <<time_now, requests, admitted, application, events>>

\* state that the crawl loop and the scraping task never touch
aux_vars == <<cancel_requested, call, ret, savers>>

(***************************************************************************)
(* Bounds                                                                  *)
(***************************************************************************)
MaxPages == 2
MaxTaskPages == 3
MaxCards == 2
MaxClock == 2
MaxCrawls == 2
MaxTasks == 1
MaxKeyLen == 2
MaxFiles == 1
MaxSavers == 2
MaxSaveJobs == 2
MaxStrLen == 4
MaxNow == 4
TicksPerMinute == 3
MaxEvents == 3
TicksPerHour == 1

(***************************************************************************)
(* Program constants                                                       *)
(***************************************************************************)
max_retries == 3
MaxAgeHours == 1

Platforms == {"naukri", "linkedin", "instahire"}

BASE_URL(p) ==
    CASE p = "naukri" -> "https://www.naukri.com"
      [] p = "linkedin" -> "https://www.linkedin.com"
      [] OTHER -> "https://www.instahyre.com"

Keywords == {<<"a", "-">>}
Locations == {<<>>}

(***************************************************************************)
(* Job cards as the adapters see them: the text of the title element, the  *)
(* href of the link element, the data-job-id attribute, and whether a      *)
(* query on the element throws.                                            *)
(***************************************************************************)
Card(t, h, j, r) == [title |-> t, href |-> h, job_id |-> j, raises |-> r]

Cards ==
    { Card("t1", <<"/", "j1">>, "", FALSE),
      Card("t2", <<>>, "", FALSE),
      Card("", <<"/", "j3">>, "", FALSE),
      Card("t1", <<"/", "j4">>, "", TRUE) }

RECURSIVE SeqsUpTo(_, _)
SeqsUpTo(S, n) ==
    IF n = 0 THEN {<<>>}
    ELSE LET shorter == SeqsUpTo(S, n - 1)
         IN shorter \cup {Append(s, x) : s \in {q \in shorter : Len(q) = n - 1}, x \in S}

PageContents == SeqsUpTo(Cards, MaxCards)

NoJob == [job_title |-> "", job_url |-> <<>>, parsed |-> FALSE]

\* href.startswith("/")
StartsWithSlash(h) == Len(h) > 0 /\ h[1] = "/"

\* f"{self.BASE_URL}{href}" if href.startswith("/") else href
AbsoluteUrl(p, h) == IF StartsWithSlash(h) THEN <<BASE_URL(p)>> \o h ELSE h

NaukriUrl(card) ==
    IF card.href # <<>> THEN AbsoluteUrl("naukri", card.href)
    ELSE IF card.job_id # "" THEN <<BASE_URL("naukri"), "/job-listings-", card.job_id>>
    ELSE <<BASE_URL("naukri"), "/job/", "md5", card.title, "Unknown">>

\* parse_job_card of the three adapters: NoJob stands for the None they
\* return for a card without title or when the element query throws.
parse_job_card(p, card) ==
    IF card.raises \/ card.title = "" THEN NoJob
    ELSE [job_title |-> card.title,
          job_url |-> IF p = "naukri" THEN NaukriUrl(card) ELSE AbsoluteUrl(p, card.href),
          parsed |-> TRUE]

\* existing_urls = {j.get("job_url") for j in all_jobs}
existing_urls(jobs) == {jobs[i].job_url : i \in 1..Len(jobs)}

AddCard_NoDedup(p, jobs, card) ==
    LET job_data == parse_job_card(p, card)
    IN IF job_data.parsed THEN Append(jobs, job_data) ELSE jobs

\* body of "for card in job_cards" for one card
AddCard(p, jobs, card) ==
    LET job_data == parse_job_card(p, card)
    IN IF job_data.parsed /\ job_data.job_url \notin existing_urls(jobs)
       THEN Append(jobs, job_data)
       ELSE jobs

\* job_url of the cards of a page for which parse_job_card returned a job
ParsedUrls(p, cards) ==
    {parse_job_card(p, cards[i]).job_url :
        i \in {k \in 1..Len(cards) : parse_job_card(p, cards[k]).parsed}}

RECURSIVE ParseCards_AbortAtFailure(_, _, _)
ParseCards_AbortAtFailure(p, jobs, cards) ==
    IF cards = <<>> \/ Head(cards).raises THEN jobs
    ELSE ParseCards_AbortAtFailure(p, AddCard(p, jobs, Head(cards)), Tail(cards))

\* "for card in job_cards" (lines 514-531): the try inside the loop body
\* confines a failure to its card
RECURSIVE ParseCards(_, _, _)
ParseCards(p, jobs, cards) ==
    IF cards = <<>> THEN jobs
    ELSE ParseCards(p, AddCard(p, jobs, Head(cards)), Tail(cards))

(***************************************************************************)
(* Checkpoint store                                                        *)
(***************************************************************************)
IsAlnum(c) == c \in {"a", "b", "c", "n", "y", "0", "1"}

\* "".join(c if c.isalnum() else "_" for c in s)
Sanitize(s) == [i \in 1..Len(s) |-> IF IsAlnum(s[i]) THEN s[i] ELSE "_"]

\* hashlib.md5(f"{class}_{timestamp}").hexdigest()[:8]: datetime.now() has
\* microsecond resolution, so every construction hashes a different
\* timestamp; the id is named by the ordinal of the construction.
_generate_session_id(n) == ToString(n)

_get_checkpoint_path(p, sid, kw, loc) ==
    <<p, "_">> \o Sanitize(kw) \o <<"_">>
      \o (IF loc # <<>> THEN Sanitize(loc) ELSE <<"a", "n", "y">>) \o <<"_", sid>>

CheckpointData_NextPage(p, kw, loc, page, jobs, now) ==
    [kind |-> "checkpoint", platform |-> p, keyword |-> kw, location |-> loc,
     current_page |-> page + 1, jobs_count |-> Len(jobs), jobs |-> jobs,
     timestamp |-> now]

CheckpointData(p, kw, loc, page, jobs, now) ==
    [kind |-> "checkpoint", platform |-> p, keyword |-> kw, location |-> loc,
     current_page |-> page, jobs_count |-> Len(jobs), jobs |-> jobs,
     timestamp |-> now]

NoCheckpoint == [kind |-> "none", platform |-> "", keyword |-> <<>>, location |-> <<>>,
                 current_page |-> 0, jobs_count |-> 0, jobs |-> <<>>, timestamp |-> 0]

CorruptContent == [NoCheckpoint EXCEPT !.kind = "corrupt"]

save_checkpoint(fs, p, sid, kw, loc, page, jobs, now) ==
    LET path == _get_checkpoint_path(p, sid, kw, loc)
    IN [f \in DOMAIN fs \cup {path} |->
          IF f = path THEN CheckpointData(p, kw, loc, page, jobs, now) ELSE fs[f]]

TooOld_AtOneHour(ts, now) == now - ts >= MaxAgeHours * TicksPerHour

\* age_hours > 1
TooOld(ts, now) == now - ts > MaxAgeHours * TicksPerHour

\* NoCheckpoint stands for the None that load_checkpoint returns
load_checkpoint(fs, p, sid, kw, loc, now) ==
    LET path == _get_checkpoint_path(p, sid, kw, loc)
    IN IF path \notin DOMAIN fs THEN NoCheckpoint
       ELSE IF fs[path].kind # "checkpoint" THEN NoCheckpoint
       ELSE IF TooOld(fs[path].timestamp, now) THEN NoCheckpoint
       ELSE fs[path]

(***************************************************************************)
(* Navigation: what one self._page.goto call meets, and how                *)
(* navigate_with_retry classifies it. A page body is the sequence of its   *)
(* characters.                                                             *)
(***************************************************************************)
UpperCase == <<"A", "B", "C", "D", "E", "F", "G", "H", "I", "J", "K", "L", "M",
               "N", "O", "P", "Q", "R", "S", "T", "U", "V", "W", "X", "Y", "Z">>

LowerCase == <<"a", "b", "c", "d", "e", "f", "g", "h", "i", "j", "k", "l", "m",
               "n", "o", "p", "q", "r", "s", "t", "u", "v", "w", "x", "y", "z">>

LowerChar(c) ==
    IF \E i \in 1..Len(UpperCase) : UpperCase[i] = c
    THEN LowerCase[CHOOSE i \in 1..Len(UpperCase) : UpperCase[i] = c]
    ELSE c

\* content.lower()
Lower(text) == [i \in 1..Len(text) |-> LowerChar(text[i])]

\* "indicator in content_lower"
IsSubstring(needle, hay) ==
    \E i \in 0..(Len(hay) - Len(needle)) : SubSeq(hay, i + 1, i + Len(needle)) = needle

block_indicators ==
    { <<"c", "a", "p", "t", "c", "h", "a">>,
      <<"r", "o", "b", "o", "t">>,
      <<"b", "l", "o", "c", "k", "e", "d">>,
      <<"a", "c", "c", "e", "s", "s", " ", "d", "e", "n", "i", "e", "d">>,
      <<"u", "n", "u", "s", "u", "a", "l", " ", "t", "r", "a", "f", "f", "i", "c">>,
      <<"v", "e", "r", "i", "f", "y", " ", "y", "o", "u", "'", "r", "e", " ", "h", "u", "m", "a", "n">>,
      <<"s", "e", "c", "u", "r", "i", "t", "y", " ", "c", "h", "e", "c", "k">> }

_is_blocked(content) ==
    \E indicator \in block_indicators : IsSubstring(indicator, Lower(content))

Bodies ==
    { <<"j", "o", "b", "s">>,
      <<"U", "n", "u", "s", "u", "a", "l", " ", "T", "r", "a", "f", "f", "i", "c">> }

\* a response with its HTTP status and body, or goto throwing (timeout,
\* connection error)
Responses ==
    {[status |-> st, body |-> b, throws |-> FALSE] : st \in {200, 403, 429}, b \in Bodies}
      \cup {[status |-> 0, body |-> <<>>, throws |-> TRUE]}

NoResponse == [status |-> 0, body |-> <<>>, throws |-> FALSE]

\* lines 243-261 and the except clauses they reach: the status is looked at
\* before the content
Outcome(resp) ==
    IF resp.throws THEN "error"
    ELSE IF resp.status = 429 THEN "rate_limited"
    ELSE IF resp.status = 403 THEN "blocked"
    ELSE IF _is_blocked(resp.body) THEN "blocked"
    ELSE "ok"

(***************************************************************************)
(* State machine                                                           *)
(***************************************************************************)
NoCall == <<>>

\* Python's None where a number or a date is expected
None == -1

\* no row in table applications (get_application returns None)
NoApplication == [exists |-> FALSE, status |-> "", timeline |-> <<>>,
                  applied_date |-> None, follow_up_date |-> None]

\* no scraper object exists yet, no task was created
Idle ==
    /\ clock = 0
    /\ instances = 0
    /\ files = <<>>
    /\ platform \in Platforms
    /\ session_id = ""
    /\ mode = "direct"
    /\ pc = "idle"
    /\ keyword \in Keywords
    /\ location = <<>>
    /\ num_pages = 1
    /\ resume = TRUE
    /\ loaded = NoCheckpoint
    /\ all_jobs = <<>>
    /\ start_page = 1
    /\ page_num = 0
    /\ attempt = 0
    /\ requested = <<>>
    /\ extracted = {}
    /\ stop_reason = ""
    /\ error = ""
    /\ empty_seen = FALSE
    /\ result = <<>>
    /\ status = "none"
    /\ progress = 0
    /\ jobs_found = 0
    /\ jobs_saved = 0
    /\ store = {}
    /\ crawls = 0
    /\ loads = 0
    /\ contexts = 0
    /\ response = NoResponse
    /\ cancel_requested = FALSE
    /\ savers = <<>>
    /\ backoff = 0
    /\ rotated = FALSE
    /\ browser = FALSE
    /\ time_now = 0
    /\ requests = <<>>
    /\ admitted = <<>>
    /\ application = NoApplication
    /\ events = <<>>

Init ==
    /\ Idle
    /\ call = NoCall
    /\ ret = NoCall

\* no crawl is running: the caller may start one
Free == pc \in {"idle", "done"} \/ (mode = "direct" /\ pc \in {"returned", "raised"})

ResumePage_SamePage(checkpoint) == checkpoint.current_page

\* start_page = checkpoint.get("current_page", 1) + 1
ResumePage(checkpoint) == checkpoint.current_page + 1

\* scrape_jobs, lines 465-478: seed all_jobs and start_page from the checkpoint
ScrapeEnter(p, sid, kw, loc, r) ==
    LET checkpoint == IF r THEN load_checkpoint(files, p, sid, kw, loc, clock)
                      ELSE NoCheckpoint
    IN /\ loaded' = checkpoint
       /\ all_jobs' = IF checkpoint.kind = "checkpoint" THEN checkpoint.jobs ELSE <<>>
       /\ start_page' = IF checkpoint.kind = "checkpoint" THEN ResumePage(checkpoint) ELSE 1
       /\ error' = ""
       /\ empty_seen' = FALSE
       /\ page_num' = 0
       /\ attempt' = 0
       /\ requested' = <<>>
       /\ extracted' = {}
       /\ stop_reason' = ""
       /\ result' = <<>>
       /\ loads' = 0
       /\ response' = NoResponse
       /\ backoff' = 0
       /\ rotated' = FALSE
       /\ pc' = "init"

close_browser_CurrentContextOnly(ctx) == IF ctx > 0 THEN ctx - 1 ELSE 0

\* close_browser (lines 209-220): the page and the current context are
\* closed, then self._browser.close() closes the browser and with it every
\* context it still has; the result is the number of contexts left open
close_browser(ctx) == 0

\* "return all_jobs" (line 551) after the loop ended for the given reason;
\* the finally clause runs close_browser, which closes the browser and with
\* it every context
Return(reason, jobs) ==
    /\ pc' = "returned"
    /\ stop_reason' = reason
    /\ result' = jobs
    /\ all_jobs' = jobs
    /\ contexts' = close_browser(contexts)
    /\ browser' = FALSE

Raise_NoCheckpoint(kind, jobs) ==
    /\ pc' = "raised"
    /\ stop_reason' = "raised"
    /\ error' = kind
    /\ all_jobs' = jobs
    /\ contexts' = close_browser(contexts)
    /\ browser' = FALSE
    /\ UNCHANGED <<files, result>>

\* "except Exception" branch, lines 553-558: self._current_page is never
\* assigned after __init__, so the checkpoint it writes carries page 0
Raise(kind, jobs) ==
    /\ pc' = "raised"
    /\ stop_reason' = "raised"
    /\ error' = kind
    /\ all_jobs' = jobs
    /\ contexts' = close_browser(contexts)
    /\ browser' = FALSE
    /\ files' = IF jobs # <<>>
                THEN save_checkpoint(files, platform, session_id, keyword, location,
                                     0, jobs, clock)
                ELSE files
    /\ UNCHANGED <<result>>

InRange_OnePastBudget(page) == page <= num_pages + 1

\* page is a value of range(start_page, num_pages + 1) not yet taken
InRange(page) == page <= num_pages

\* head of "for page_num in range(start_page, num_pages + 1)" and the call
\* of navigate_with_retry for that page
LoopIter(page, jobs, ctx) ==
    IF ~InRange(page)
    THEN /\ Return("budget", jobs)
         /\ UNCHANGED <<page_num, attempt, requested>>
    ELSE /\ pc' = "nav"
         /\ page_num' = page
         /\ attempt' = 0
         /\ requested' = Append(requested, page)
         /\ all_jobs' = jobs
         /\ contexts' = ctx
         /\ browser' = TRUE
         /\ UNCHANGED <<stop_reason, result>>

\* POST /scrape: create the ScrapingJob record and queue the background task
start_scrape_job(kw, loc, n) ==
    /\ Free
    /\ crawls < MaxTasks
    /\ crawls' = crawls + 1
    /\ mode' = "task"
    /\ pc' = "queued"
    /\ keyword' = kw
    /\ location' = loc
    /\ num_pages' = n
    /\ resume' = TRUE
    /\ status' = "pending"
    /\ progress' = 0
    /\ jobs_found' = 0
    /\ jobs_saved' = 0
    /\ cancel_requested' = FALSE
    /\ UNCHANGED <<clock, instances, files, platform, session_id, loaded, all_jobs,
                   start_page, page_num, attempt, requested, extracted, stop_reason,
                   error, empty_seen, result, store, nav_vars, call, ret, savers, api_vars>>

TaskBegin_StaysPending ==
    /\ pc = "queued"
    /\ instances' = instances + 1
    /\ session_id' = _generate_session_id(instances + 1)
    /\ ScrapeEnter(platform, _generate_session_id(instances + 1), keyword, location, resume)
    /\ UNCHANGED <<clock, files, platform, mode, keyword, location, num_pages, resume,
                   status, progress, jobs_found, jobs_saved, store, crawls, contexts,
                   browser, aux_vars, api_vars>>

\* run_scraping_task lines 109-144: status running, a new scraper object,
\* and the call of scrape_jobs with the default resume_from_checkpoint
TaskBegin ==
    /\ pc = "queued"
    /\ status' = "running"
    /\ instances' = instances + 1
    /\ session_id' = _generate_session_id(instances + 1)
    /\ ScrapeEnter(platform, _generate_session_id(instances + 1), keyword, location, resume)
    /\ UNCHANGED <<clock, files, platform, mode, keyword, location, num_pages, resume,
                   progress, jobs_found, jobs_saved, store, crawls, contexts, browser,
                   aux_vars, api_vars>>

\* library code calling scrape_jobs itself, on a new scraper object or on
\* the one it already holds
DirectCall(fresh, kw, loc, n, r) ==
    /\ Free
    /\ crawls < MaxCrawls
    /\ fresh \/ instances > 0
    /\ crawls' = crawls + 1
    /\ mode' = "direct"
    /\ keyword' = kw
    /\ location' = loc
    /\ num_pages' = n
    /\ resume' = r
    /\ instances' = IF fresh THEN instances + 1 ELSE instances
    /\ session_id' = IF fresh THEN _generate_session_id(instances + 1) ELSE session_id
    /\ ScrapeEnter(platform, session_id', kw, loc, r)
    /\ UNCHANGED <<clock, files, platform, status, progress, jobs_found, jobs_saved, store,
                   contexts, browser, aux_vars, api_vars>>

\* init_browser (line 481); a failure goes to the except branch
InitBrowser(ok) ==
    /\ pc = "init"
    /\ IF ok
       THEN /\ LoopIter(start_page, all_jobs, 1)
            /\ UNCHANGED <<files, error>>
       ELSE /\ Raise("BrowserInit", all_jobs)
            /\ UNCHANGED <<page_num, attempt, requested>>
    /\ UNCHANGED <<clock, instances, platform, session_id, mode, keyword, location,
                   num_pages, resume, loaded, start_page, extracted, empty_seen, status,
                   progress, jobs_found, jobs_saved, store, crawls, loads, response,
                   backoff, rotated, aux_vars, api_vars>>

NavOutcomes == {"ok", "rate_limited", "blocked", "error"}

\* the classification of every response, tabulated
Outcomes == [resp \in Responses |-> Outcome(resp)]

\* lines 269-270: "await self._context.close()" and then _setup_new_context
RotateAfterRateLimit(ctx) == (ctx - 1) + 1

\* line 276: _setup_new_context alone; the context in use is not closed
RotateAfterBlock(ctx) == ctx + 1

AttemptsRemain_OneMore(a) == a < max_retries

\* "attempt < self.max_retries - 1": range(self.max_retries) has a next value
AttemptsRemain(a) == a < max_retries - 1

RECURSIVE Pow2(_)
Pow2(n) == IF n = 0 THEN 1 ELSE 2 * Pow2(n - 1)

RateLimitWait_Linear(a) == (a + 1) * 30

\* "wait_time = (2 ** attempt) * 30" (line 263)
RateLimitWait(a) == Pow2(a) * 30

\* "await asyncio.sleep(60)" (line 274)
BlockWait == 60

ErrorWait_Constant(a) == 5

\* "await asyncio.sleep(5 * (attempt + 1))" (line 282)
ErrorWait(a) == 5 * (a + 1)

Rotates_OnRateLimitOnly(outcome) == outcome = "rate_limited"

\* the except clauses that call _setup_new_context (lines 269 and 275)
Rotates(outcome) == outcome \in {"rate_limited", "blocked"}

RateLimitExhausted_Raises ==
    /\ Raise("RateLimited", all_jobs)
    /\ UNCHANGED <<attempt>>

\* the for loop ends after a rate-limited last attempt: "return False"
\* (line 287), then "if not success: break" (lines 501-503) and
\* "return all_jobs"
RateLimitExhausted ==
    /\ Return("nav_false", all_jobs)
    /\ UNCHANGED <<attempt, files, error>>

\* one pass of "for attempt in range(self.max_retries)" in navigate_with_retry
NavAttempt(resp) ==
    /\ pc = "nav"
    /\ loads' = loads + 1
    /\ response' = resp
    /\ CASE Outcomes[resp] = "ok" ->
              /\ pc' = "cards"
              /\ backoff' = 0
              /\ rotated' = FALSE
              /\ UNCHANGED <<attempt, all_jobs, stop_reason, error, result, files,
                             contexts, browser>>
         [] Outcomes[resp] = "rate_limited" ->
              \* the sleep and the rotation are not conditional on the attempt
              /\ backoff' = RateLimitWait(attempt)
              /\ rotated' = Rotates("rate_limited")
              /\ IF AttemptsRemain(attempt)
                 THEN /\ attempt' = attempt + 1
                      /\ contexts' = RotateAfterRateLimit(contexts)
                      /\ UNCHANGED <<pc, all_jobs, stop_reason, error, result, files,
                                     browser>>
                 ELSE RateLimitExhausted
         [] Outcomes[resp] = "blocked" ->
              IF AttemptsRemain(attempt)
              THEN /\ attempt' = attempt + 1
                   /\ backoff' = BlockWait
                   /\ rotated' = Rotates("blocked")
                   /\ contexts' = RotateAfterBlock(contexts)
                   /\ UNCHANGED <<pc, all_jobs, stop_reason, error, result, files,
                                  browser>>
              ELSE \* "raise" (BlockedError)
                   /\ backoff' = 0
                   /\ rotated' = FALSE
                   /\ Raise("Blocked", all_jobs)
                   /\ UNCHANGED <<attempt>>
         [] OTHER ->
              IF AttemptsRemain(attempt)
              THEN /\ attempt' = attempt + 1
                   /\ backoff' = ErrorWait(attempt)
                   /\ rotated' = Rotates("error")
                   /\ UNCHANGED <<pc, all_jobs, stop_reason, error, result, files,
                                  contexts, browser>>
              ELSE \* "raise ScrapingError"
                   /\ backoff' = 0
                   /\ rotated' = FALSE
                   /\ Raise("NavigationFailed", all_jobs)
                   /\ UNCHANGED <<attempt>>
    /\ UNCHANGED <<clock, instances, platform, session_id, mode, keyword, location,
                   num_pages, resume, loaded, start_page, page_num, requested,
                   extracted, empty_seen, status, progress, jobs_found, jobs_saved,
                   store, crawls, aux_vars, api_vars>>

\* the progress_callback argument of scrape_jobs: run_scraping_task defines
\* the callback (lines 130-136) but calls scrape_jobs without it (lines
\* 139-144), so the parameter keeps its default None
progress_callback == "None"

\* "if progress_callback: progress_callback(page_num, num_pages, len(all_jobs))"
\* with the callback of run_scraping_task: int((page / total) * 100)
CallbackProgress(page, total) == (page * 100) \div total

NoCards_Never(cards) == FALSE

\* "if not job_cards" (line 509)
NoCards(cards) == cards = <<>>

\* lines 505-548 for one loaded page: get_job_cards, the card loop,
\* save_checkpoint and has_next_page
ProcessPage(cards, has_next) ==
    /\ pc = "cards"
    /\ empty_seen' = (empty_seen \/ cards = <<>>)
    /\ UNCHANGED error
    /\ IF NoCards(cards)
       THEN /\ Return("empty", all_jobs)
            /\ UNCHANGED <<page_num, attempt, requested, files, extracted,
                           progress, jobs_found>>
       ELSE LET jobs == ParseCards(platform, all_jobs, cards)
            IN /\ files' = save_checkpoint(files, platform, session_id, keyword,
                                           location, page_num, jobs, clock)
               /\ extracted' = extracted \cup ParsedUrls(platform, cards)
               /\ IF progress_callback # "None" /\ mode = "task"
                  THEN /\ progress' = CallbackProgress(page_num, num_pages)
                       /\ jobs_found' = Len(jobs)
                  ELSE UNCHANGED <<progress, jobs_found>>
               /\ IF page_num < num_pages /\ ~has_next
                  THEN /\ Return("no_next", jobs)
                       /\ UNCHANGED <<page_num, attempt, requested>>
                  ELSE LoopIter(page_num + 1, jobs, contexts)
    /\ UNCHANGED <<clock, instances, platform, session_id, mode, keyword, location,
                   num_pages, resume, loaded, start_page, status, jobs_saved, store,
                   crawls, loads, response, backoff, rotated, aux_vars, api_vars>>

\* LinkedInScraper.get_job_cards raising BlockedError at the auth wall
AuthWall ==
    /\ pc = "cards"
    /\ platform = "linkedin"
    /\ Raise("AuthWall", all_jobs)
    /\ UNCHANGED <<clock, instances, platform, session_id, mode, keyword, location,
                   num_pages, resume, loaded, start_page, page_num, attempt, requested,
                   extracted, empty_seen, status, progress, jobs_found, jobs_saved,
                   store, crawls, loads, response, backoff, rotated, aux_vars, api_vars>>

\* JobCRUD.get_job_by_url in a session: the committed rows and the rows the
\* session itself has inserted
get_job_by_url(committed, pending, u) == u \in committed \cup pending

\* JobCRUD.add_job: db.flush() sends the INSERT, which the table rejects for
\* a job_url that is NULL (nullable=False) or already stored (unique=True)
InsertFails(committed, u) == u = <<>> \/ u \in committed

\* rows added by "for job_data in jobs" (lines 149-180) when no other
\* session writes: a URL already stored is skipped; a failed flush rolls the
\* session's transaction back and every later call on the session raises,
\* so the "except Exception" around add_job does not save the task
RECURSIVE SaveLoop(_, _, _)
SaveLoop(st, saved, jobs) ==
    IF jobs = <<>> THEN [store |-> st, saved |-> saved, broken |-> FALSE]
    ELSE LET u == Head(jobs).job_url
         IN IF get_job_by_url(st, {}, u)
            THEN SaveLoop(st, saved, Tail(jobs))
            ELSE IF InsertFails(st, u)
            THEN [store |-> st, saved |-> saved, broken |-> TRUE]
            ELSE SaveLoop(st \cup {u}, saved + 1, Tail(jobs))

TaskSave_FailureUnrecorded(db_ok) ==
    /\ pc = "returned"
    /\ mode = "task"
    /\ pc' = "done"
    /\ IF db_ok /\ ~SaveLoop(store, 0, result).broken
       THEN LET r == SaveLoop(store, 0, result)
            IN /\ store' = r.store
               /\ status' = "completed"
               /\ progress' = 100
               /\ jobs_found' = Len(result)
               /\ jobs_saved' = r.saved
               /\ UNCHANGED error
       ELSE /\ error' = "Database"
            /\ UNCHANGED <<status, store, progress, jobs_found, jobs_saved>>
    /\ UNCHANGED <<clock, instances, files, platform, session_id, mode, keyword,
                   location, num_pages, resume, loaded, all_jobs, start_page, page_num,
                   attempt, requested, extracted, stop_reason, empty_seen, result,
                   crawls, nav_vars, aux_vars, api_vars>>

\* run_scraping_task lines 146-186 after scrape_jobs returned; a database
\* exception rolls the session back and goes to the except branch
TaskSave(db_ok) ==
    /\ pc = "returned"
    /\ mode = "task"
    /\ pc' = "done"
    /\ IF db_ok /\ ~SaveLoop(store, 0, result).broken
       THEN LET r == SaveLoop(store, 0, result)
            IN /\ store' = r.store
               /\ status' = "completed"
               /\ progress' = 100
               /\ jobs_found' = Len(result)
               /\ jobs_saved' = r.saved
               /\ UNCHANGED error
       ELSE /\ status' = "failed"
            /\ error' = "Database"
            /\ UNCHANGED <<store, progress, jobs_found, jobs_saved>>
    /\ UNCHANGED <<clock, instances, files, platform, session_id, mode, keyword,
                   location, num_pages, resume, loaded, all_jobs, start_page, page_num,
                   attempt, requested, extracted, stop_reason, empty_seen, result,
                   crawls, nav_vars, aux_vars, api_vars>>

TaskFail_Completed ==
    /\ pc = "raised"
    /\ mode = "task"
    /\ pc' = "done"
    /\ status' = "completed"
    /\ UNCHANGED <<clock, instances, files, platform, session_id, mode, keyword,
                   location, num_pages, resume, loaded, all_jobs, start_page, page_num,
                   attempt, requested, extracted, stop_reason, error, empty_seen,
                   result, progress, jobs_found, jobs_saved, store, crawls, nav_vars,
                   aux_vars, api_vars>>

\* run_scraping_task lines 195-201: scrape_jobs raised
TaskFail ==
    /\ pc = "raised"
    /\ mode = "task"
    /\ pc' = "done"
    /\ status' = "failed"
    /\ UNCHANGED <<clock, instances, files, platform, session_id, mode, keyword,
                   location, num_pages, resume, loaded, all_jobs, start_page, page_num,
                   attempt, requested, extracted, stop_reason, error, empty_seen,
                   result, progress, jobs_found, jobs_saved, store, crawls, nav_vars,
                   aux_vars, api_vars>>

\* the client asks for the running scraping job to be cancelled; nothing in
\* scrape_jobs or run_scraping_task reads the request
RequestCancel ==
    /\ mode = "task"
    /\ pc \in {"init", "nav", "cards"}
    /\ ~cancel_requested
    /\ cancel_requested' = TRUE
    /\ UNCHANGED <<clock, instances, files, platform, session_id, mode, pc, keyword,
                   location, num_pages, resume, loaded, all_jobs, start_page, page_num,
                   attempt, requested, extracted, stop_reason, error, empty_seen,
                   result, status, progress, jobs_found, jobs_saved, store, crawls,
                   nav_vars, call, ret, savers, api_vars>>

\* time passes between one crawl and the next
Tick ==
    /\ Free
    /\ crawls > 0
    /\ crawls < MaxCrawls
    /\ clock < MaxClock
    /\ clock' = clock + 1
    /\ UNCHANGED <<instances, files, platform, session_id, mode, pc, keyword,
                   location, num_pages, resume, loaded, all_jobs, start_page, page_num,
                   attempt, requested, extracted, stop_reason, error, empty_seen,
                   result, status, progress, jobs_found, jobs_saved, store, crawls,
                   nav_vars, aux_vars, api_vars>>

\* a checkpoint file is damaged on disk (truncated write, edited by hand)
CorruptFile(f) ==
    /\ Free
    /\ crawls < MaxCrawls
    /\ files[f].kind = "checkpoint"
    /\ files' = [files EXCEPT ![f] = CorruptContent]
    /\ UNCHANGED <<clock, instances, platform, session_id, mode, pc, keyword,
                   location, num_pages, resume, loaded, all_jobs, start_page, page_num,
                   attempt, requested, extracted, stop_reason, error, empty_seen,
                   result, status, progress, jobs_found, jobs_saved, store, crawls,
                   nav_vars, aux_vars, api_vars>>

\* library code driving scrape_jobs, with the checkpoint directory
Next ==
    \/ \E fresh \in BOOLEAN, kw \in Keywords, loc \in Locations,
          n \in 1..MaxPages, r \in BOOLEAN :
          DirectCall(fresh, kw, loc, n, r)
    \/ \E ok \in BOOLEAN : InitBrowser(ok)
    \/ \E resp \in Responses : NavAttempt(resp)
    \/ \E cards \in PageContents, has_next \in BOOLEAN : ProcessPage(cards, has_next)
    \/ AuthWall
    \/ Tick
    \/ \E f \in DOMAIN files : CorruptFile(f)

Spec == Init /\ [][Next]_vars

\* the API: POST /scrape and its background task
TaskNext ==
    \/ \E kw \in Keywords, loc \in Locations, n \in 1..MaxTaskPages :
          start_scrape_job(kw, loc, n)
    \/ TaskBegin
    \/ \E ok \in BOOLEAN : InitBrowser(ok)
    \/ \E resp \in Responses : NavAttempt(resp)
    \/ \E cards \in PageContents, has_next \in BOOLEAN : ProcessPage(cards, has_next)
    \/ AuthWall
    \/ \E db_ok \in BOOLEAN : TaskSave(db_ok)
    \/ TaskFail
    \/ RequestCancel

TaskSpec == Init /\ [][TaskNext]_vars

(***************************************************************************)
(* The checkpoint methods called on their own: library code that holds a   *)
(* scraper object and calls save_checkpoint and load_checkpoint with any   *)
(* keyword and location (scrape_jobs calls them with keyword and           *)
(* location or "").                                                        *)
(***************************************************************************)
KeyChars == {"a", "_"}

\* the keyword is a required field; the location may be missing
StoreKeywords == (SeqsUpTo(KeyChars, MaxKeyLen) \ {<<>>}) \cup Keywords

StoreLocations == SeqsUpTo(KeyChars, MaxKeyLen) \cup {<<"a", "n", "y">>}

\* a scraper object is constructed
Construct ==
    /\ instances < MaxCrawls
    /\ instances' = instances + 1
    /\ session_id' = _generate_session_id(instances + 1)
    /\ UNCHANGED <<clock, files, platform, mode, pc, keyword, location, num_pages,
                   resume, loaded, all_jobs, start_page, page_num, attempt, requested,
                   extracted, stop_reason, error, empty_seen, result, status, progress,
                   jobs_found, jobs_saved, store, crawls, nav_vars, aux_vars, api_vars>>

SaveCall(kw, loc, page, jobs) ==
    /\ instances > 0
    /\ \/ _get_checkpoint_path(platform, session_id, kw, loc) \in DOMAIN files
       \/ Cardinality(DOMAIN files) < MaxFiles
    /\ files' = save_checkpoint(files, platform, session_id, kw, loc, page, jobs, clock)
    /\ keyword' = kw
    /\ location' = loc
    /\ call' = <<"save_checkpoint">>
    /\ UNCHANGED <<clock, instances, platform, session_id, mode, pc, num_pages, resume,
                   loaded, all_jobs, start_page, page_num, attempt, requested, extracted,
                   stop_reason, error, empty_seen, result, status, progress, jobs_found,
                   jobs_saved, store, crawls, nav_vars, cancel_requested, ret, savers, api_vars>>

LoadCall(kw, loc) ==
    /\ instances > 0
    /\ loaded' = load_checkpoint(files, platform, session_id, kw, loc, clock)
    /\ keyword' = kw
    /\ location' = loc
    /\ call' = <<"load_checkpoint">>
    /\ UNCHANGED <<clock, instances, files, platform, session_id, mode, pc, num_pages,
                   resume, all_jobs, start_page, page_num, attempt, requested, extracted,
                   stop_reason, error, empty_seen, result, status, progress, jobs_found,
                   jobs_saved, store, crawls, nav_vars, cancel_requested, ret, savers, api_vars>>

StoreNext ==
    \/ Construct
    \/ \E kw \in StoreKeywords, loc \in StoreLocations : SaveCall(kw, loc, 1, <<>>)
    \/ \E kw \in StoreKeywords, loc \in StoreLocations : LoadCall(kw, loc)

StoreSpec == Init /\ [][StoreNext]_vars

\* the event loop keeps running the task: every awaited call returns or raises
LiveTaskSpec == TaskSpec /\ WF_vars(TaskNext)

(***************************************************************************)
(* Several scraping tasks saving at once: lines 146-186 of                 *)
(* run_scraping_task step by step, each task in its own database session   *)
(* (get_async_db). savers[t] is task t: the job_url list its crawl         *)
(* returned, the index of the job at hand, the rows inserted and not yet   *)
(* committed, saved_count, whether a flush has failed in the session, the  *)
(* rows it committed and its status record.                                *)
(***************************************************************************)
SaveUrls == {<<"u1">>, <<"u2">>}

\* what a crawl can return: no job_url twice
SaveJobLists ==
    {q \in SeqsUpTo(SaveUrls, MaxSaveJobs) : \A i, k \in 1..Len(q) : q[i] = q[k] => i = k}

\* rows inserted by other sessions and not yet committed
PendingOfOthers(t) == UNION {savers[o].pending : o \in DOMAIN savers \ {t}}

\* the next job of the loop, or the statement after the loop
Advance(sv) ==
    [sv EXCEPT !.i = sv.i + 1,
               !.pc = IF sv.i + 1 > Len(sv.jobs) THEN "finish" ELSE "check"]

\* scrape_jobs returned; "async with get_async_db() as db" (line 148)
SaveBegin(t, jobs) ==
    /\ t \notin DOMAIN savers
    /\ savers' = savers @@ (t :> [pc |-> IF jobs = <<>> THEN "finish" ELSE "check",
                                  jobs |-> jobs, i |-> 1, pending |-> {}, saved |-> 0,
                                  broken |-> FALSE, committed |-> {},
                                  status |-> "running", jobs_saved |-> 0])
    /\ UNCHANGED <<clock, instances, files, platform, session_id, mode, pc, keyword,
                   location, num_pages, resume, loaded, all_jobs, start_page, page_num,
                   attempt, requested, extracted, stop_reason, error, empty_seen,
                   result, status, progress, jobs_found, jobs_saved, store, crawls,
                   nav_vars, cancel_requested, call, ret, api_vars>>

\* the session raised outside the inner try: get_async_db rolls back, the
\* except branch of run_scraping_task records failed (lines 195-201)
SaveRaise(sv) == [sv EXCEPT !.pc = "done", !.pending = {}, !.status = "failed"]

\* "existing = await JobCRUD.get_job_by_url(...)" and "if existing: continue"
SaveCheck(t) ==
    /\ t \in DOMAIN savers
    /\ savers[t].pc = "check"
    /\ LET sv == savers[t]
           u == sv.jobs[sv.i]
       IN savers' = [savers EXCEPT ![t] =
              IF sv.broken THEN SaveRaise(sv)
              ELSE IF get_job_by_url(store, sv.pending, u) THEN Advance(sv)
              ELSE [sv EXCEPT !.pc = "insert"]]
    /\ UNCHANGED <<clock, instances, files, platform, session_id, mode, pc, keyword,
                   location, num_pages, resume, loaded, all_jobs, start_page, page_num,
                   attempt, requested, extracted, stop_reason, error, empty_seen,
                   result, status, progress, jobs_found, jobs_saved, store, crawls,
                   nav_vars, cancel_requested, call, ret, api_vars>>

\* the INSERT waits for a session that has inserted the same job_url and
\* not yet committed; two sessions waiting for each other is a deadlock
Waits(t) ==
    /\ savers[t].pc = "insert"
    /\ savers[t].jobs[savers[t].i] \in PendingOfOthers(t)

Deadlocked(t) ==
    /\ Waits(t)
    /\ \E o \in DOMAIN savers \ {t} :
          /\ Waits(o)
          /\ savers[t].jobs[savers[t].i] \in savers[o].pending
          /\ savers[o].jobs[savers[o].i] \in savers[t].pending

\* "await JobCRUD.add_job(db, job_record); saved_count += 1" inside
\* try/except (lines 176-180)
SaveInsert(t) ==
    /\ t \in DOMAIN savers
    /\ savers[t].pc = "insert"
    /\ ~Waits(t) \/ Deadlocked(t)
    /\ LET sv == savers[t]
           u == sv.jobs[sv.i]
       IN savers' = [savers EXCEPT ![t] =
              IF InsertFails(store, u) \/ Deadlocked(t)
              THEN Advance([sv EXCEPT !.broken = TRUE, !.pending = {}])
              ELSE Advance([sv EXCEPT !.pending = sv.pending \cup {u},
                                      !.saved = sv.saved + 1])]
    /\ UNCHANGED <<clock, instances, files, platform, session_id, mode, pc, keyword,
                   location, num_pages, resume, loaded, all_jobs, start_page, page_num,
                   attempt, requested, extracted, stop_reason, error, empty_seen,
                   result, status, progress, jobs_found, jobs_saved, store, crawls,
                   nav_vars, cancel_requested, call, ret, api_vars>>

\* update_scraping_job_status(..., "completed", ...) on the same session and
\* the commit at the end of "async with" (lines 183-186, crud.py 83)
SaveFinish(t) ==
    /\ t \in DOMAIN savers
    /\ savers[t].pc = "finish"
    /\ LET sv == savers[t]
       IN IF sv.broken
          THEN /\ savers' = [savers EXCEPT ![t] = SaveRaise(sv)]
               /\ UNCHANGED store
          ELSE /\ savers' = [savers EXCEPT ![t] =
                      [sv EXCEPT !.pc = "done", !.pending = {},
                                 !.committed = sv.pending, !.status = "completed",
                                 !.jobs_saved = sv.saved]]
               /\ store' = store \cup sv.pending
    /\ UNCHANGED <<clock, instances, files, platform, session_id, mode, pc, keyword,
                   location, num_pages, resume, loaded, all_jobs, start_page, page_num,
                   attempt, requested, extracted, stop_reason, error, empty_seen,
                   result, status, progress, jobs_found, jobs_saved, crawls,
                   nav_vars, cancel_requested, call, ret, api_vars>>

SaveNext ==
    \/ \E t \in 1..MaxSavers, jobs \in SaveJobLists : SaveBegin(t, jobs)
    \/ \E t \in 1..MaxSavers : SaveCheck(t)
    \/ \E t \in 1..MaxSavers : SaveInsert(t)
    \/ \E t \in 1..MaxSavers : SaveFinish(t)

SaveSpec == Init /\ [][SaveNext]_vars

(***************************************************************************)
(* The static helpers parse_salary and parse_experience, on strings as     *)
(* sequences of characters. -1 stands for None. The regular expressions    *)
(* are matched as re.search matches them: the leftmost start that matches, *)
(* and at that start the first match of the backtracking order, in which   *)
(* every group takes as much as it can.                                    *)
(***************************************************************************)
Digits == <<"0", "1", "2", "3", "4", "5", "6", "7", "8", "9">>

IsDigit(c) == \E i \in 1..Len(Digits) : Digits[i] = c

DigitValue(c) == (CHOOSE i \in 1..Len(Digits) : Digits[i] = c) - 1

\* int(text) for a string of digits
RECURSIVE int(_)
int(d) ==
    IF d = <<>> THEN 0
    ELSE int(SubSeq(d, 1, Len(d) - 1)) * 10 + DigitValue(d[Len(d)])

RECURSIVE Pow10(_)
Pow10(n) == IF n = 0 THEN 1 ELSE 10 * Pow10(n - 1)

UpperChar(c) ==
    IF \E i \in 1..Len(LowerCase) : LowerCase[i] = c
    THEN UpperCase[CHOOSE i \in 1..Len(LowerCase) : LowerCase[i] = c]
    ELSE c

\* salary_str.upper()
Upper(text) == [i \in 1..Len(text) |-> UpperChar(text[i])]

RECURSIVE Without(_, _)
\* text.replace(c, "") for every character c of removed
Without(text, removed) ==
    IF text = <<>> THEN <<>>
    ELSE IF Head(text) \in removed THEN Without(Tail(text), removed)
    ELSE <<Head(text)>> \o Without(Tail(text), removed)

CharAt(text, i) == IF i \in 1..Len(text) THEN text[i] ELSE ""

\* last position of the longest run of digits that starts at p (p - 1: none)
RECURSIVE RunEnd(_, _)
RunEnd(text, p) ==
    IF p <= Len(text) /\ IsDigit(text[p]) THEN RunEnd(text, p + 1) ELSE p - 1

\* where a match of \d+(?:\.\d+)? that starts at p can end
NumberEnds(text, p) ==
    LET e == RunEnd(text, p)
        f == IF e >= p /\ CharAt(text, e + 1) = "." THEN RunEnd(text, e + 2) ELSE 0
    IN (p..e) \cup (IF f >= e + 2 THEN (e + 2)..f ELSE {})

\* the matches of (\d+(?:\.\d+)?)-?(\d+(?:\.\d+)?)?<unit> that start at p, as
\* <<end of group 1, 1 if "-" was taken, end of group 2 or 0 without group 2>>
RangeMatches(text, p, unit) ==
    {m \in NumberEnds(text, p) \X {0, 1} \X (0..Len(text)) :
        /\ m[2] = 1 => CharAt(text, m[1] + 1) = "-"
        /\ m[3] # 0 => m[3] \in NumberEnds(text, m[1] + m[2] + 1)
        /\ CharAt(text, (IF m[3] # 0 THEN m[3] ELSE m[1] + m[2]) + 1) = unit}

\* m is tried before n by the backtracking engine (greedy groups)
TriedFirst(m, n) ==
    \/ m[1] > n[1]
    \/ m[1] = n[1] /\ m[2] > n[2]
    \/ m[1] = n[1] /\ m[2] = n[2] /\ m[3] >= n[3]

NoMatch == [matched |-> FALSE, group1 |-> <<>>, group2 |-> <<>>]

\* re.search(pattern, text) for the lakh pattern (unit "L") and the K
\* pattern (unit "K"); the optional (?:PA|AC) after L changes no group
SearchRange(text, unit) ==
    LET starts == {p \in 1..Len(text) : RangeMatches(text, p, unit) # {}}
    IN IF starts = {} THEN NoMatch
       ELSE LET p == CHOOSE q \in starts : \A r \in starts : q <= r
                M == RangeMatches(text, p, unit)
                m == CHOOSE x \in M : \A y \in M : TriedFirst(x, y)
            IN [matched |-> TRUE,
                group1 |-> SubSeq(text, p, m[1]),
                group2 |-> IF m[3] = 0 THEN <<>>
                           ELSE SubSeq(text, m[1] + m[2] + 1, m[3])]

\* re.findall(r"\d+", text)
RECURSIVE FindNumbers(_, _)
FindNumbers(text, p) ==
    IF p > Len(text) THEN <<>>
    ELSE IF IsDigit(text[p])
    THEN <<SubSeq(text, p, RunEnd(text, p))>> \o FindNumbers(text, RunEnd(text, p) + 1)
    ELSE FindNumbers(text, p + 1)

\* number * factor in exact arithmetic, for a number text with or without
\* fraction (the factors are multiples of 10 ^ Len(frac) here)
Product(number, factor) ==
    LET e == RunEnd(number, 1)
        whole == SubSeq(number, 1, e)
        frac == SubSeq(number, e + 2, Len(number))
    IN int(whole) * factor + (int(frac) * factor) \div Pow10(Len(frac))

\* the number texts over the digits 1 and 5, of up to three digits, whose
\* double multiplied by the factor is a double just below the exact product:
\* float("5.1") * 100000 is 509999.99999999994, float("1.15") * 100000 is
\* 114999.99999999999; every other such text gives the exact product
FloatFallsShort ==
    { <<<<"5", ".", "1">>, 100000>>, <<<<"1", ".", "1", "5">>, 100000>> }

\* int(float(number) * factor): the double product, truncated
Scaled(number, factor) ==
    IF <<number, factor>> \in FloatFallsShort
    THEN Product(number, factor) - 1
    ELSE Product(number, factor)

Nulls == [min |-> None, max |-> None]

\* <<>> is None or ""
parse_salary(salary_str) ==
    IF salary_str = <<>> THEN Nulls
    ELSE LET text == Without(Upper(salary_str), {",", " "})
             lpa == SearchRange(text, "L")
             k == SearchRange(text, "K")
             numbers == FindNumbers(text, 1)
         IN IF lpa.matched
            THEN [min |-> Scaled(lpa.group1, 100000),
                  max |-> IF lpa.group2 # <<>> THEN Scaled(lpa.group2, 100000)
                          ELSE Scaled(lpa.group1, 100000)]
            ELSE IF k.matched
            THEN [min |-> Scaled(k.group1, 1000),
                  max |-> IF k.group2 # <<>> THEN Scaled(k.group2, 1000)
                          ELSE Scaled(k.group1, 1000)]
            ELSE IF Len(numbers) >= 2
            THEN [min |-> int(numbers[1]), max |-> int(numbers[2])]
            ELSE IF Len(numbers) = 1
            THEN [min |-> int(numbers[1]), max |-> int(numbers[1])]
            ELSE Nulls

\* starts of the matches of (\d+)-(\d+) and of (\d+)\+ : a run of digits
\* followed by "-" and a digit, or by "+"
RangeStarts(text) ==
    {p \in 1..Len(text) :
        /\ IsDigit(text[p])
        /\ CharAt(text, RunEnd(text, p) + 1) = "-"
        /\ IsDigit(CharAt(text, RunEnd(text, p) + 2))}

PlusStarts(text) ==
    {p \in 1..Len(text) : IsDigit(text[p]) /\ CharAt(text, RunEnd(text, p) + 1) = "+"}

Leftmost(S) == CHOOSE p \in S : \A q \in S : p <= q

parse_experience_PlusIsSingle(exp_str) ==
    IF exp_str = <<>> THEN Nulls
    ELSE LET text == Without(Lower(exp_str), {" "})
             numbers == FindNumbers(text, 1)
         IN IF RangeStarts(text) # {}
            THEN LET p == Leftmost(RangeStarts(text))
                     e == RunEnd(text, p)
                 IN [min |-> int(SubSeq(text, p, e)),
                     max |-> int(SubSeq(text, e + 2, RunEnd(text, e + 2)))]
            ELSE IF numbers # <<>>
            THEN [min |-> int(numbers[1]), max |-> int(numbers[1])]
            ELSE Nulls

parse_experience(exp_str) ==
    IF exp_str = <<>> THEN Nulls
    ELSE LET text == Without(Lower(exp_str), {" "})
             numbers == FindNumbers(text, 1)
         IN IF RangeStarts(text) # {}
            THEN LET p == Leftmost(RangeStarts(text))
                     e == RunEnd(text, p)
                 IN [min |-> int(SubSeq(text, p, e)),
                     max |-> int(SubSeq(text, e + 2, RunEnd(text, e + 2)))]
            ELSE IF PlusStarts(text) # {}
            THEN LET p == Leftmost(PlusStarts(text))
                 IN [min |-> int(SubSeq(text, p, RunEnd(text, p))), max |-> None]
            ELSE IF numbers # <<>>
            THEN [min |-> int(numbers[1]), max |-> int(numbers[1])]
            ELSE Nulls

SalaryChars == {"1", "5", "-", ".", "L", "k", " "}

SalaryExamples ==
    { <<"1", "0", "-", "1", "5", " ", "L", "P", "A">>,
      <<"2", "5", "L">>,
      <<"1", "0", "0", "0", "0", "0", "0", "-", "1", "5", "0", "0", "0", "0", "0">>,
      <<"5", "0", ",", "0", "0", "0", " ", "-", " ", "8", "0", ",", "0", "0", "0">> }

SalaryInputs == SeqsUpTo(SalaryChars, MaxStrLen) \cup SalaryExamples

ExperienceChars == {"3", "5", "-", "+", " ", "Y"}

ExperienceExamples ==
    { <<"3", "-", "5", " ", "y", "e", "a", "r", "s">>,
      <<"5", "+", " ", "y", "e", "a", "r", "s">>,
      <<"5", " ", "y", "e", "a", "r", "s">>,
      <<"5", "+", " ", "o", "r", " ", "3", "-", "5">> }

ExperienceInputs == SeqsUpTo(ExperienceChars, MaxStrLen) \cup ExperienceExamples

\* the calls of the two helpers
UtilCalls ==
    {<<"parse_salary", salary_str>> : salary_str \in SalaryInputs}
      \cup {<<"parse_experience", exp_str>> : exp_str \in ExperienceInputs}

UtilInit ==
    /\ Idle
    /\ call \in UtilCalls
    /\ ret = NoCall

CallParseSalary ==
    /\ call[1] = "parse_salary"
    /\ ret = NoCall
    /\ ret' = parse_salary(call[2])
    /\ UNCHANGED <<clock, instances, files, platform, session_id, mode, pc, keyword,
                   location, num_pages, resume, loaded, all_jobs, start_page, page_num,
                   attempt, requested, extracted, stop_reason, error, empty_seen,
                   result, status, progress, jobs_found, jobs_saved, store, crawls,
                   nav_vars, cancel_requested, call, savers, api_vars>>

CallParseExperience ==
    /\ call[1] = "parse_experience"
    /\ ret = NoCall
    /\ ret' = parse_experience(call[2])
    /\ UNCHANGED <<clock, instances, files, platform, session_id, mode, pc, keyword,
                   location, num_pages, resume, loaded, all_jobs, start_page, page_num,
                   attempt, requested, extracted, stop_reason, error, empty_seen,
                   result, status, progress, jobs_found, jobs_saved, store, crawls,
                   nav_vars, cancel_requested, call, savers, api_vars>>

UtilNext ==
    \/ CallParseSalary
    \/ CallParseExperience

UtilSpec == UtilInit /\ [][UtilNext]_vars

\* text is one match of \d+ and nothing else
IsDigits(text) == text # <<>> /\ RunEnd(text, 1) = Len(text)

\* text is one match of \d+(?:\.\d+)? and nothing else
IsNumber(text) == text # <<>> /\ Len(text) \in NumberEnds(text, 1)

(***************************************************************************)
(* The in-memory rate limiter of the API (src/api/main.py). The server      *)
(* builds it with requests_per_minute=100; the limit is scaled down here.  *)
(* is_allowed has no await, so a call is one step of the event loop.       *)
(***************************************************************************)
requests_per_minute == 2

\* request.client.host of the callers
Clients == {"10.0.0.1", "10.0.0.2"}

\* "minute_ago = now - 60"
minute_ago(now) == now - TicksPerMinute

Recent_AtOneMinute(t, now) == t >= minute_ago(now)

\* "t > minute_ago"
Recent(t, now) == t > minute_ago(now)

\* self.requests after "Clean old entries"
Cleaned(reqs, now) ==
    [k \in DOMAIN reqs |-> SelectSeq(reqs[k], LAMBDA t : Recent(t, now))]

\* self.requests.get(client_id, [])
Get(reqs, client_id) == IF client_id \in DOMAIN reqs THEN reqs[client_id] ELSE <<>>

\* "if client_id not in self.requests: self.requests[client_id] = []" and
\* "self.requests[client_id].append(now)"
Record(reqs, client_id, now) ==
    [k \in DOMAIN reqs \cup {client_id} |->
        IF k = client_id THEN Append(Get(reqs, client_id), now) ELSE reqs[k]]

\* rate_limit_middleware calling rate_limiter.is_allowed(client_ip)
is_allowed(client_id) ==
    LET now == time_now
        cleaned == Cleaned(requests, now)
        client_requests == Get(cleaned, client_id)
    IN /\ call' = <<"is_allowed", client_id>>
       /\ IF Len(client_requests) >= requests_per_minute
          THEN /\ ret' = FALSE
               /\ requests' = cleaned
               /\ UNCHANGED admitted
          ELSE /\ ret' = TRUE
               /\ requests' = Record(cleaned, client_id, now)
               /\ admitted' = Append(admitted, <<client_id, now>>)
       /\ UNCHANGED <<clock, instances, files, platform, session_id, mode, pc, keyword,
                      location, num_pages, resume, loaded, all_jobs, start_page,
                      page_num, attempt, requested, extracted, stop_reason, error,
                      empty_seen, result, status, progress, jobs_found, jobs_saved,
                      store, crawls, nav_vars, cancel_requested, savers, time_now,
                      application, events>>

\* time passes between two requests
TimePasses ==
    /\ time_now < MaxNow
    /\ time_now' = time_now + 1
    /\ UNCHANGED <<clock, instances, files, platform, session_id, mode, pc, keyword,
                   location, num_pages, resume, loaded, all_jobs, start_page,
                   page_num, attempt, requested, extracted, stop_reason, error,
                   empty_seen, result, status, progress, jobs_found, jobs_saved,
                   store, crawls, nav_vars, aux_vars, requests, admitted,
                   application, events>>

LimiterNext ==
    \/ \E client_id \in Clients : is_allowed(client_id)
    \/ TimePasses

LimiterSpec == Init /\ [][LimiterNext]_vars

(***************************************************************************)
(* The application tracker (src/database/crud.py, src/database/models.py). *)
(* application is the row of the applications table; a request loads it    *)
(* into an Application object, changes the object, flushes and refreshes.  *)
(* timeline is a plain JSON column (no MutableList, no flag_modified): the *)
(* unit of work sees an attribute only when it is assigned, never when the *)
(* list it holds is changed in place. An event is <<status, timestamp>>.   *)
(***************************************************************************)
\* members of ApplicationStatus the requests use
ApplicationStatuses == {"pending", "applied", "rejected", "interview_scheduled"}

\* Application.add_timeline_event on an object whose assigned attributes are
\* dirty; gives the object and the assigned attributes afterwards
add_timeline_event(self, dirty, event_status) ==
    IF "timeline" \notin DOMAIN self
    THEN [self  |-> [a \in DOMAIN self \cup {"timeline"} |->
                        IF a = "timeline" THEN <<<<event_status, time_now>>>>
                        ELSE self[a]],
          dirty |-> dirty \cup {"timeline"}]
    ELSE [self  |-> [self EXCEPT !.timeline = Append(@, <<event_status, time_now>>)],
          dirty |-> dirty]

\* db.flush() then db.refresh(application): the UPDATE carries the assigned
\* attributes, and the object is loaded again from the row
FlushAndRefresh(row, self, dirty) ==
    [a \in DOMAIN row |-> IF a \in dirty THEN self[a] ELSE row[a]]

AppUnchanged ==
    UNCHANGED <<clock, instances, files, platform, session_id, mode, pc, keyword,
                location, num_pages, resume, loaded, all_jobs, start_page,
                page_num, attempt, requested, extracted, stop_reason, error,
                empty_seen, result, status, progress, jobs_found, jobs_saved,
                store, crawls, nav_vars, cancel_requested, savers, time_now,
                requests, admitted>>

\* ApplicationCRUD.add_application with the application_data of the
\* create_application route (status PENDING, no timeline)
add_application ==
    /\ ~application.exists
    /\ Len(events) < MaxEvents
    /\ LET created == [exists |-> TRUE, status |-> "pending",
                        applied_date |-> None, follow_up_date |-> None]
           added == add_timeline_event(created, {}, "pending")
       IN /\ application' = added.self
          /\ ret' = added.self
    /\ events' = Append(events, <<"pending", time_now>>)
    /\ call' = <<"add_application">>
    /\ AppUnchanged

\* ApplicationCRUD.update_application_status
update_application_status(new_status) ==
    /\ Len(events) < MaxEvents
    /\ call' = <<"update_application_status", new_status>>
    /\ IF ~application.exists
       THEN /\ ret' = None
            /\ UNCHANGED <<application, events>>
       ELSE LET assigned == [application EXCEPT !.status = new_status]
                added == add_timeline_event(assigned, {"status"}, new_status)
                marked == IF new_status = "applied" /\ added.self.applied_date = None
                          THEN [self  |-> [added.self EXCEPT !.applied_date = time_now],
                                dirty |-> added.dirty \cup {"applied_date"}]
                          ELSE added
            IN /\ application' = FlushAndRefresh(application, marked.self, marked.dirty)
               /\ ret' = application'
               /\ events' = Append(events, <<new_status, time_now>>)
    /\ AppUnchanged

\* ApplicationCRUD.set_follow_up
set_follow_up(follow_up_date) ==
    /\ Len(events) < MaxEvents
    /\ call' = <<"set_follow_up", follow_up_date>>
    /\ IF ~application.exists
       THEN /\ ret' = None
            /\ UNCHANGED <<application, events>>
       ELSE LET assigned == [application EXCEPT !.follow_up_date = follow_up_date]
                added == add_timeline_event(assigned, {"follow_up_date"}, "follow_up_set")
            IN /\ application' = FlushAndRefresh(application, added.self, added.dirty)
               /\ ret' = application'
               /\ events' = Append(events, <<"follow_up_set", time_now>>)
    /\ AppUnchanged

AppNext ==
    \/ add_application
    \/ \E new_status \in ApplicationStatuses : update_application_status(new_status)
    \/ \E follow_up_date \in 0..MaxNow : set_follow_up(follow_up_date)
    \/ TimePasses

AppSpec == Init /\ [][AppNext]_vars

(***************************************************************************)
(* One page of a scraping task with the cards of the page on record: the   *)
(* task has loaded page 1, or has processed page 1 and loaded page 2, and  *)
(* get_job_cards is about to return the cards held in call.                *)
(***************************************************************************)
OkResponse == [status |-> 200, body |-> <<"j", "o", "b", "s">>, throws |-> FALSE]

CardInit ==
    \E prev \in PageContents, cards \in PageContents, n \in 1..MaxTaskPages :
        LET page == IF prev = <<>> THEN 1 ELSE 2
            sid == _generate_session_id(1)
            jobs == ParseCards(platform, <<>>, prev)
        IN /\ n >= page
           /\ clock = 0
           /\ instances = 1
           /\ platform \in Platforms
           /\ session_id = sid
           /\ mode = "task"
           /\ pc = "cards"
           /\ keyword \in Keywords
           /\ location \in Locations
           /\ num_pages = n
           /\ resume = TRUE
           /\ loaded = NoCheckpoint
           /\ all_jobs = jobs
           /\ start_page = 1
           /\ page_num = page
           /\ attempt = 0
           /\ requested = [i \in 1..page |-> i]
           /\ extracted = ParsedUrls(platform, prev)
           /\ stop_reason = ""
           /\ error = ""
           /\ empty_seen = FALSE
           /\ result = <<>>
           /\ status = "running"
           /\ progress = 0
           /\ jobs_found = 0
           /\ jobs_saved = 0
           /\ store = {}
           /\ crawls = 1
           /\ loads = page
           /\ contexts = 1
           /\ response = OkResponse
           /\ cancel_requested = FALSE
           /\ savers = <<>>
           /\ backoff = 0
           /\ rotated = FALSE
           /\ browser = TRUE
           /\ time_now = 0
           /\ requests = <<>>
           /\ admitted = <<>>
           /\ application = NoApplication
           /\ events = <<>>
           /\ files = IF prev = <<>> THEN <<>>
                      ELSE save_checkpoint(<<>>, platform, sid, keyword, location,
                                           1, jobs, 0)
           /\ call = <<"get_job_cards", cards>>
           /\ ret = NoCall

\* get_job_cards returns the cards on record and the page is processed
ProcessRecordedPage == \E has_next \in BOOLEAN : ProcessPage(call[2], has_next)

CardNext == ProcessRecordedPage

CardSpec == CardInit /\ [][CardNext]_vars

(***************************************************************************)
(* Properties                                                              *)
(***************************************************************************)
\* the checkpoint file of the crawl's (platform, keyword, location, session)
CkptPath == _get_checkpoint_path(platform, session_id, keyword, location)

NoDupUrls(jobs) ==
    \A i, k \in 1..Len(jobs) : jobs[i].job_url = jobs[k].job_url => i = k

Contains(jobs, j) == \E k \in 1..Len(jobs) : jobs[k] = j

Running == pc \in {"init", "nav", "cards"}

\* C1: a crawl that resumed from a checkpoint with current_page = N and
\* jobs = J requests pages N+1, N+2, ... (never a page <= N), keeps every
\* job of J in its list, and returns a list that contains J.
C1_ResumeAfterCheckpoint ==
    (resume /\ loaded.kind = "checkpoint") =>
        /\ pc = "init" => loaded = files[CkptPath]
        /\ \A i \in 1..Len(requested) : requested[i] = loaded.current_page + i
        /\ \A i \in 1..Len(loaded.jobs) : Contains(all_jobs, loaded.jobs[i])
        /\ pc = "returned" =>
              \A i \in 1..Len(loaded.jobs) : Contains(result, loaded.jobs[i])

C1_Witness ==
    /\ pc = "returned"
    /\ resume
    /\ loaded.kind = "checkpoint"
    /\ loaded.current_page = 1
    /\ loaded.jobs # <<>>
    /\ requested = <<2>>
    /\ Len(result) > Len(loaded.jobs)

\* C2: a crawl with resume requested finds the checkpoint that an earlier
\* crawl saved for the same (platform, keyword, location) when that
\* checkpoint is at most one hour old, whichever scraper object saved it.
C2_CheckpointFoundAfterRestart ==
    (pc = "init" /\ resume /\
       \E f \in DOMAIN files :
          /\ files[f].kind = "checkpoint"
          /\ files[f].platform = platform
          /\ files[f].keyword = keyword
          /\ files[f].location = location
          /\ clock - files[f].timestamp <= MaxAgeHours * TicksPerHour)
    => loaded.kind = "checkpoint"

C4_EmptyPageEndsCrawl ==
    empty_seen =>
        /\ ~Running
        /\ stop_reason = "empty"
        /\ requested = [i \in 1..(page_num - start_page + 1) |-> start_page + i - 1]
        /\ result = all_jobs
        /\ NoDupUrls(result)
        /\ loaded.kind = "none" =>
              /\ start_page = 1
              /\ existing_urls(result) = extracted
        /\ (loaded.kind = "none" /\ num_pages = 3 /\ page_num = 2) => requested = <<1, 2>>

C4_Witness ==
    /\ empty_seen
    /\ loaded.kind = "none"
    /\ num_pages = 3
    /\ page_num = 2
    /\ requested = <<1, 2>>
    /\ Len(result) = 2
    /\ pc = "done"
    /\ status = "completed"

\* C5 as stated: in a crawl with page budget 3 where page 2 returns zero
\* job cards, the checkpoint stored when the crawl ends has current_page = 2.
C5_Original ==
    (empty_seen /\ pc = "returned" /\ num_pages = 3 /\ page_num = 2) =>
        /\ CkptPath \in DOMAIN files
        /\ files[CkptPath].current_page = 2

\* C5 amended: the empty page writes no checkpoint, so the checkpoint stored
\* when the crawl ends is the one of the last page that had cards: with
\* budget 3 and empty page 2 it has current_page = 1 and the returned jobs;
\* in general an empty page k after the start page leaves current_page = k-1.
C5_CheckpointOfLastPageWithCards ==
    (empty_seen /\ pc = "returned" /\ page_num > start_page) =>
        /\ CkptPath \in DOMAIN files
        /\ files[CkptPath].kind = "checkpoint"
        /\ files[CkptPath].current_page = page_num - 1
        /\ files[CkptPath].jobs = result
        /\ (num_pages = 3 /\ page_num = 2) => files[CkptPath].current_page = 1

C5_Witness ==
    /\ empty_seen
    /\ pc = "returned"
    /\ num_pages = 3
    /\ page_num = 2
    /\ start_page = 1
    /\ files[CkptPath].current_page = 1
    /\ files[CkptPath].jobs = result
    /\ result # <<>>

\* C6: the accumulated list, the returned list and every checkpoint hold no
\* two jobs with the same job_url, also when the list was seeded from a
\* checkpoint, and running the card loop a second time on the same cards
\* changes nothing.
C6_NoDuplicateUrls ==
    /\ NoDupUrls(all_jobs)
    /\ NoDupUrls(result)
    /\ \A f \in DOMAIN files : NoDupUrls(files[f].jobs)
    /\ \A cards \in PageContents :
          ParseCards(platform, ParseCards(platform, all_jobs, cards), cards)
             = ParseCards(platform, all_jobs, cards)

C6_Witness ==
    /\ pc = "returned"
    /\ loaded.kind = "checkpoint"
    /\ extracted \cap existing_urls(loaded.jobs) # {}
    /\ Len(all_jobs) = 2
    /\ NoDupUrls(all_jobs)

\* C7 as stated: every job in the returned list and in every checkpoint has
\* a non-empty job_url, for every adapter.
C7_EveryJobHasUrl ==
    /\ \A i \in 1..Len(result) : result[i].job_url # <<>>
    /\ \A f \in DOMAIN files :
          \A i \in 1..Len(files[f].jobs) : files[f].jobs[i].job_url # <<>>

\* C8: the status of a scraping job is pending, running, completed or
\* failed; it is running before any page is attempted; it moves only
\* pending -> running -> completed | failed and never leaves completed or
\* failed (crawls changes only when a new job record is created).
C8_StatusLifecycle ==
    /\ [](/\ status \in {"none", "pending", "running", "completed", "failed"}
          /\ pc = "queued" => status = "pending"
          /\ pc \in {"init", "nav", "cards", "returned", "raised"} => status = "running"
          /\ pc = "done" => status \in {"completed", "failed"})
    /\ [][crawls' = crawls =>
            /\ status = "pending" => status' \in {"pending", "running"}
            /\ status = "running" => status' \in {"running", "completed", "failed"}
            /\ status \in {"completed", "failed"} => status' = status]_vars

C8_Witness ==
    /\ pc = "done"
    /\ status = "completed"
    /\ requested = <<1, 2, 3>>
    /\ jobs_found = Len(result)

NavFailed == stop_reason = "nav_false" \/ error \in {"Blocked", "NavigationFailed"}

C11_ProgressAfterEachPage ==
    /\ [](mode = "task" =>
            /\ progress \in 0..100
            /\ (pc = "nav" /\ page_num > start_page) =>
                  /\ status = "running"
                  /\ progress = CallbackProgress(page_num - 1, num_pages)
                  /\ jobs_found = Len(all_jobs))
    /\ [][crawls' = crawls => progress' >= progress]_vars

\* C12: navigate_with_retry makes at most max_retries goto calls for one
\* URL whatever the outcomes are: a call is made only with attempt <
\* max_retries, every failed attempt either moves to the next attempt or ends
\* the navigation, and every navigation ends (page loaded, False returned or
\* exception raised); the whole crawl makes at most num_pages * max_retries
\* goto calls.
C12_BoundedRetries ==
    /\ [](pc \notin {"idle", "queued"} =>
            /\ attempt \in 0..(max_retries - 1)
            /\ pc = "nav" => loads <= (Len(requested) - 1) * max_retries + attempt
            /\ pc # "nav" => loads <= Len(requested) * max_retries
            /\ Len(requested) <= num_pages
            /\ loads <= num_pages * max_retries)
    /\ [][loads' > loads =>
            /\ pc = "nav"
            /\ loads' = loads + 1
            /\ pc' \in {"nav", "cards", "returned", "raised"}
            /\ pc' = "nav" => attempt' = attempt + 1]_vars
    /\ (pc = "nav") ~> (pc \in {"cards", "returned", "raised"})

C12_Witness ==
    /\ pc = "returned"
    /\ num_pages = 2
    /\ requested = <<1, 2>>
    /\ loads = num_pages * max_retries
    /\ Len(result) = 2

\* the last goto call returned a page whose content holds a block indicator
SawBlockPage == ~response.throws /\ response # NoResponse /\ _is_blocked(response.body)

\* C13 as stated: an attempt whose page content holds a block indicator (in
\* any letter case) is classified Blocked whatever the HTTP status is, 200
\* and 429 included: it is never followed by the page being parsed, and it
\* rotates the session the way a block does or raises Blocked; a navigation
\* that ends on such content after its last attempt has failed with Blocked.
C13_BlockContentIsBlocked ==
    SawBlockPage =>
        /\ Outcomes[response] = "blocked"
        /\ pc # "cards"
        /\ pc \in {"returned", "raised", "done"} => error = "Blocked"

\* C14 as stated: the crawl loop looks at the cancellation request at the
\* top of each page iteration: once cancellation is requested the page in
\* progress may finish, but no further page is started.
C14_CancelStopsAtPageBoundary ==
    [][cancel_requested => Len(requested') <= Len(requested)]_vars

\* C15 as stated: load_checkpoint(keyword, location) returns only a
\* checkpoint that was saved for exactly that keyword and location, and
\* save_checkpoint never overwrites the checkpoint of another keyword or
\* location, for all keyword and location strings.
C15_CheckpointKeyedByKeywordAndLocation ==
    /\ [](call = <<"load_checkpoint">> /\ loaded.kind = "checkpoint" =>
             /\ loaded.keyword = keyword
             /\ loaded.location = location)
    /\ [][\A f \in DOMAIN files :
             (files'[f] # files[f] /\ files[f].kind = "checkpoint") =>
                 /\ files'[f].keyword = files[f].keyword
                 /\ files'[f].location = files[f].location]_vars

\* C16 as stated: with scraping tasks saving overlapping job URLs at the
\* same time, no job_url is stored by two tasks, no INSERT is attempted for a
\* URL that is already stored (such a job is skipped), and every task that
\* has finished is completed with jobs_saved = the number of rows it stored.
C16_ConcurrentSaversComplete ==
    \A t \in DOMAIN savers :
        /\ \A o \in DOMAIN savers \ {t} : savers[t].committed \cap savers[o].committed = {}
        /\ ~savers[t].broken
        /\ savers[t].pc = "done" =>
              /\ savers[t].status = "completed"
              /\ savers[t].jobs_saved = Cardinality(savers[t].committed)

\* C17: parse_salary gives value x 100000 for a lakh text, value x 1000 for
\* a K text and the number itself for a bare number, min = max for a single
\* value; "10-15 LPA" gives 1000000..1500000, "25L" gives 2500000 twice,
\* "1000000-1500000" gives these two numbers, no input gives nulls.
C17_SalaryParsing ==
    (call # NoCall /\ call[1] = "parse_salary" /\ ret # NoCall) =>
        LET salary_str == call[2]
            number == SubSeq(salary_str, 1, Len(salary_str) - 1)
            unit == CharAt(salary_str, Len(salary_str))
        IN /\ salary_str = <<>> => ret = Nulls
           /\ salary_str = <<"1", "0", "-", "1", "5", " ", "L", "P", "A">>
                 => ret = [min |-> 1000000, max |-> 1500000]
           /\ salary_str = <<"2", "5", "L">>
                 => ret = [min |-> 2500000, max |-> 2500000]
           /\ salary_str = <<"1", "0", "0", "0", "0", "0", "0", "-",
                             "1", "5", "0", "0", "0", "0", "0">>
                 => ret = [min |-> 1000000, max |-> 1500000]
           /\ (IsNumber(number) /\ unit = "L")
                 => ret = [min |-> Product(number, 100000),
                           max |-> Product(number, 100000)]
           /\ (IsNumber(number) /\ unit = "k")
                 => ret = [min |-> Product(number, 1000),
                           max |-> Product(number, 1000)]
           /\ (salary_str # <<>> /\ RunEnd(salary_str, 1) = Len(salary_str))
                 => ret = [min |-> int(salary_str), max |-> int(salary_str)]

\* C18: parse_experience gives min and max for a range, min alone for "N+",
\* min = max for a single number and nulls otherwise, the range being tried
\* before "N+": "3-5 years" gives 3..5, "5+ years" gives 5 and null,
\* "5 years" gives 5 twice, no input gives nulls.
C18_ExperienceParsing ==
    (call # NoCall /\ call[1] = "parse_experience" /\ ret # NoCall) =>
        LET exp_str == call[2]
            n == Len(exp_str)
        IN /\ exp_str = <<>> => ret = Nulls
           /\ exp_str = <<"3", "-", "5", " ", "y", "e", "a", "r", "s">>
                 => ret = [min |-> 3, max |-> 5]
           /\ exp_str = <<"5", "+", " ", "y", "e", "a", "r", "s">>
                 => ret = [min |-> 5, max |-> None]
           /\ exp_str = <<"5", " ", "y", "e", "a", "r", "s">>
                 => ret = [min |-> 5, max |-> 5]
           /\ exp_str = <<"5", "+", " ", "o", "r", " ", "3", "-", "5">>
                 => ret = [min |-> 3, max |-> 5]
           /\ \A i \in 1..n :
                 (/\ exp_str[i] = "-"
                  /\ IsDigits(SubSeq(exp_str, 1, i - 1))
                  /\ IsDigits(SubSeq(exp_str, i + 1, n)))
                 => ret = [min |-> int(SubSeq(exp_str, 1, i - 1)),
                           max |-> int(SubSeq(exp_str, i + 1, n))]
           /\ (n > 0 /\ exp_str[n] = "+" /\ IsDigits(SubSeq(exp_str, 1, n - 1)))
                 => ret = [min |-> int(SubSeq(exp_str, 1, n - 1)), max |-> None]
           /\ IsDigits(exp_str)
                 => ret = [min |-> int(exp_str), max |-> int(exp_str)]
           /\ (\A i \in 1..n : ~IsDigit(exp_str[i])) => ret = Nulls

C18_Witness ==
    /\ call = <<"parse_experience", <<"5", "+", " ", "o", "r", " ", "3", "-", "5">>>>
    /\ ret = [min |-> 3, max |-> 5]

\* the last page whose cards the crawl has extracted and deduplicated (a
\* crawl that stopped at an empty page, or in a failed navigation or at the
\* auth wall of page_num, has processed the pages before page_num)
LastProcessedPage ==
    IF pc \in {"returned", "done"} /\ stop_reason \in {"budget", "no_next"}
    THEN page_num
    ELSE page_num - 1

\* C19 as stated: whenever the checkpoint of the crawl exists, its
\* current_page is the last page the crawl fully processed and its jobs and
\* jobs_count are the accumulated job list, after every processed page and
\* after a crawl that ended with a navigation failure.
C19_CheckpointIsLastProcessedPage ==
    (mode = "task" /\ pc \in {"nav", "cards", "returned", "raised", "done"}
       /\ CkptPath \in DOMAIN files) =>
        /\ files[CkptPath].kind = "checkpoint"
        /\ files[CkptPath].current_page = LastProcessedPage
        /\ files[CkptPath].jobs = all_jobs
        /\ files[CkptPath].jobs_count = Len(all_jobs)

\* C20 as stated: every session rotation closes the old browser context
\* before it creates the new one, so a crawl never has more than one
\* context that is not closed.
C20_OneContextAtATime == contexts <= 1

\* the step is a goto call of navigate_with_retry that met the given outcome
Met(outcome) == loads' = loads + 1 /\ Outcomes[response'] = outcome

\* C21: when attempt a (counted from 0) of a navigation gets HTTP 429 the
\* engine sleeps 30 * 2^a seconds (30, 60, 120) and sets up a new context,
\* the old one closed, before the next attempt of the same page is made.
C21_RateLimitBackoff ==
    [][Met("rate_limited") =>
          /\ backoff' = (CASE attempt = 0 -> 30 [] attempt = 1 -> 60 [] OTHER -> 120)
          /\ rotated'
          /\ attempt < max_retries - 1 =>
                /\ pc' = "nav"
                /\ attempt' = attempt + 1
                /\ page_num' = page_num
                /\ contexts' = contexts]_vars

C21_Witness ==
    /\ response # NoResponse
    /\ Outcomes[response] = "rate_limited"
    /\ loads = max_retries
    /\ backoff = 120
    /\ rotated

\* C22: a blocked attempt (HTTP 403 or block-indicator content) with
\* attempts remaining sleeps 60 seconds, sets up a new context and retries
\* the page; a blocked last attempt raises Blocked out of the crawl loop
\* without a sleep, a rotation or a further goto call.
C22_BlockedBackoff ==
    /\ [][Met("blocked") =>
             IF attempt < max_retries - 1
             THEN /\ backoff' = 60
                  /\ rotated'
                  /\ pc' = "nav"
                  /\ attempt' = attempt + 1
                  /\ page_num' = page_num
             ELSE /\ backoff' = 0
                  /\ ~rotated'
                  /\ pc' = "raised"
                  /\ error' = "Blocked"]_vars
    /\ [][(error = "Blocked" /\ pc \in {"raised", "done"}) =>
             (loads' = loads /\ backoff' = backoff /\ pc' # "nav")]_vars

C22_Witness ==
    /\ error = "Blocked"
    /\ pc = "raised"
    /\ loads = max_retries
    /\ response.status = 200
    /\ backoff = 0

\* C23: an attempt a (counted from 0) that fails with another exception
\* and has attempts remaining sleeps 5 * (a + 1) seconds and retries in the
\* same context; the last of max_retries attempts failing this way raises
\* ScrapingError (NavigationFailed).
C23_ErrorBackoff ==
    [][Met("error") =>
          IF attempt < max_retries - 1
          THEN /\ backoff' = (IF attempt = 0 THEN 5 ELSE 10)
               /\ ~rotated'
               /\ contexts' = contexts
               /\ pc' = "nav"
               /\ attempt' = attempt + 1
               /\ page_num' = page_num
          ELSE /\ loads' >= max_retries
               /\ pc' = "raised"
               /\ error' = "NavigationFailed"]_vars

C23_Witness ==
    /\ error = "NavigationFailed"
    /\ pc = "raised"
    /\ loads = max_retries
    /\ Outcomes[response] = "error"

\* the cards of a page whose extraction yields a job: no query on the card
\* throws and the card has a title
Extractable(cards) == {i \in 1..Len(cards) : ~cards[i].raises /\ cards[i].title # ""}

\* C24: a card whose extraction fails is skipped and nothing else is: for
\* a page with cards, failing in any subset, the crawl does not raise, the
\* jobs appended are the jobs of the cards that did not fail and whose URL
\* is new, once each and in card order, and the page is checkpointed.
C24_CardFailureIsolated ==
    [][(pc = "cards" /\ call # NoCall /\ call[1] = "get_job_cards" /\ call[2] # <<>>) =>
          LET cards == call[2]
              old == Len(all_jobs)
              url(i) == parse_job_card(platform, cards[i]).job_url
              new == {i \in Extractable(cards) :
                        /\ url(i) \notin existing_urls(all_jobs)
                        /\ \A k \in Extractable(cards) : k < i => url(k) # url(i)}
              rank(i) == Cardinality({k \in new : k <= i})
          IN /\ pc' \in {"nav", "returned"}
             /\ error' = ""
             /\ Len(all_jobs') = old + Cardinality(new)
             /\ SubSeq(all_jobs', 1, old) = all_jobs
             /\ \A i \in new :
                   /\ all_jobs'[old + rank(i)].job_url = url(i)
                   /\ all_jobs'[old + rank(i)].job_title = cards[i].title
             /\ CkptPath \in DOMAIN files'
             /\ files'[CkptPath].current_page = page_num
             /\ files'[CkptPath].jobs = all_jobs']_vars

\* a page of two cards, the first failing, the second giving a new job
C24_Witness ==
    /\ call # NoCall
    /\ call[1] = "get_job_cards"
    /\ Len(call[2]) = 2
    /\ call[2][1].raises
    /\ ~call[2][2].raises
    /\ pc \in {"nav", "returned"}
    /\ page_num >= 1
    /\ Len(all_jobs) = 2
    /\ all_jobs[2].job_title = call[2][2].title

\* C25: the pages a crawl requests are start_page, start_page + 1, ... in
\* this order, start_page being 1 or the checkpoint's page + 1, and none is
\* above num_pages; a crawl whose start_page is above num_pages requests no
\* page and returns the jobs of the checkpoint unchanged.
C25_ConsecutivePages ==
    (pc \notin {"idle", "queued"}) =>
        /\ start_page = (IF resume /\ loaded.kind = "checkpoint"
                         THEN loaded.current_page + 1 ELSE 1)
        /\ \A i \in 1..Len(requested) :
              /\ requested[i] = start_page + i - 1
              /\ requested[i] <= num_pages
        /\ (start_page > num_pages /\ pc # "init") =>
              /\ requested = <<>>
              /\ loads = 0
              /\ pc = "returned" => result = loaded.jobs

C25_Witness ==
    /\ pc = "returned"
    /\ loaded.kind = "checkpoint"
    /\ loaded.jobs # <<>>
    /\ start_page = num_pages + 1
    /\ requested = <<>>
    /\ result = loaded.jobs

C27_BrowserClosedOnExit ==
    /\ []((pc \in {"nav", "cards"} => (browser /\ contexts >= 1))
          /\ (pc \in {"returned", "raised", "done"} => (~browser /\ contexts = 0)))
    /\ [][(Running /\ ~Running') =>
             /\ pc' \in {"returned", "raised"}
             /\ stop_reason' \in {"budget", "no_next", "empty", "nav_false", "raised"}
             /\ ~browser'
             /\ contexts' = 0]_vars

\* a crawl that was blocked three times on one page: two contexts were set
\* up on top of the first, and all are closed when the exception leaves
C27_Witness ==
    /\ pc = "raised"
    /\ error = "Blocked"
    /\ loads = max_retries
    /\ rotated = FALSE
    /\ ~browser
    /\ contexts = 0

AdmittedIn(client_id, from, to) ==
    Cardinality({i \in 1..Len(admitted) :
                    /\ admitted[i][1] = client_id
                    /\ admitted[i][2] > from
                    /\ admitted[i][2] <= to})

\* C29: no client has more than requests_per_minute admitted requests in
\* any window of one minute; is_allowed returns False exactly when the
\* client has requests_per_minute admitted requests in the last minute, a
\* rejected request is not recorded, and the answer does not depend on what
\* other clients did.
C29_RateLimit ==
    /\ [](\A client_id \in Clients, t \in 0..MaxNow :
             AdmittedIn(client_id, t - TicksPerMinute, t) <= requests_per_minute)
    /\ [](\A client_id \in DOMAIN requests :
             Len(requests[client_id]) <= requests_per_minute)
    /\ [][(call' # call \/ ret' # ret \/ requests' # requests \/ admitted' # admitted) =>
             LET client_id == call'[2]
                 before == AdmittedIn(client_id, time_now - TicksPerMinute, time_now)
             IN /\ call'[1] = "is_allowed"
                /\ ret' = (before < requests_per_minute)
                /\ ret' = FALSE =>
                      /\ admitted' = admitted
                      /\ Len(Get(requests', client_id)) = before
                /\ ret' = TRUE =>
                      /\ admitted' = Append(admitted, <<client_id, time_now>>)
                      /\ Len(Get(requests', client_id)) = before + 1]_vars

\* a client at its limit is rejected while the other client is admitted at
\* the same moment, and is admitted again once its requests are a minute old
C29_Witness ==
    /\ call = <<"is_allowed", "10.0.0.1">>
    /\ ret = TRUE
    /\ time_now = TicksPerMinute
    /\ AdmittedIn("10.0.0.1", -1, 0) = requests_per_minute
    /\ AdmittedIn("10.0.0.1", 0, TicksPerMinute) = 1
    /\ AdmittedIn("10.0.0.2", 0, TicksPerMinute) >= 1

\* the events the calls on the application added, by their status
StatusEvents == SelectSeq(events, LAMBDA e : e[1] # "follow_up_set")

AppliedEvents == SelectSeq(events, LAMBDA e : e[1] = "applied")

\* the stored timeline holds every event the calls added, in order, and
\* nothing else
TimelineHoldsEveryEvent == application.timeline = events

\* the stored status is the status of the last status event
StatusIsLastStatusEvent ==
    StatusEvents # <<>> =>
        application.status = StatusEvents[Len(StatusEvents)][1]

\* applied_date is the time of the first update to applied, and is unset
\* before it
AppliedDateIsFirstApplied ==
    application.applied_date =
        IF AppliedEvents = <<>> THEN None ELSE AppliedEvents[1][2]

\* C30: the timeline of an application is append-only and tracks its
\* status: it starts with the 'pending' event of the creation, every
\* update_application_status and set_follow_up call adds its one event
\* (so the last status event is the application's status, and a follow-up
\* leaves the status alone), and applied_date is the time the status first
\* became applied.
C30_TimelineTracksStatus ==
    application.exists =>
        /\ events[1][1] = "pending"
        /\ TimelineHoldsEveryEvent
        /\ StatusIsLastStatusEvent
        /\ AppliedDateIsFirstApplied

====
